---- MODULE Spec2Model ----
(***************************************************************************)
(* Notifications center - Delivery API (src/app.py): an AMQP to HTTP       *)
(* gateway.  The model covers the two POST handlers, register_consumer     *)
(* and unregister_consumer, the helpers they call, and the broker they     *)
(* talk to through pika.  A request is a thread of the web server; it      *)
(* advances one broker call at a time, so requests interleave at the       *)
(* blocking calls (connect, queue_declare, queue_bind, queue_delete,       *)
(* close).                                                                 *)
(***************************************************************************)
EXTENDS Integers, Sequences, FiniteSets, TLC

\* ----------------------------------------------------------------- bounds

\* Number of HTTP requests the server receives in a run.
MaxReqs == 2
\* Most messages the broker holds pending in one queue.
MaxMsgs == 1

Reqs == 1..MaxReqs

\* ------------------------------------------------------------ environment

\* Python's None.
NoneVal == "<None>"

\* Exchanges that exist on the broker.
BrokerExchanges == {"events", "main"}

\* Values of the DEFAULT_EXCHANGE environment variable (None: not set).
DefaultExchangeValues == {NoneVal, "main"}

\* Exchange names and routing keys callers send.
CallerExchanges == {"events", "nope"}
CallerRoutingKeys == {"orders.*"}

\* An exception: its pika class and the broker call that raised it.
Exc(type, at) == [type |-> type, at |-> at]
NoExc == Exc("none", "none")

\* request.json: None when the body is missing, else the object's fields.
NoBody == [hasBody |-> FALSE, fields |-> << >>]
Body(f) == [hasBody |-> TRUE, fields |-> f]

RegisterBodies ==
    {NoBody, Body(<< >>)}
    \cup {Body("exchange" :> e) : e \in CallerExchanges}
    \cup {Body("routing-key" :> k) : k \in CallerRoutingKeys}
    \cup {Body(("exchange" :> e) @@ ("routing-key" :> k)) :
            e \in CallerExchanges, k \in CallerRoutingKeys}

UnregisterBodies(keys) ==
    {NoBody, Body(<< >>)}
    \cup {Body("force" :> TRUE)}
    \cup {Body("key" :> k) : k \in keys}
    \cup {Body(("key" :> k) @@ ("force" :> f)) : k \in keys, f \in BOOLEAN}

VARIABLES
    req,        \* the requests: inputs, position, locals, response, calls made
    queues,     \* the broker's queues: name -> [durable, bindings, msgs]
    config,     \* service['config']['DefaultExchange']
    nextKey     \* number of keys generate_queue_key has produced

vars == <<req, queues, config, nextKey>>

\* ---------------------------------------------------------------- helpers

\* Mutant: every call returns the same key.
generate_queue_key_Same(n) == "k1"

\* generate_queue_key: uuid4 gives a key no earlier call gave.
generate_queue_key(n) == "k" \o ToString(n)

\* A key no register has produced (an unregister may carry it).
UnknownKey == generate_queue_key(0)

\* Mutant: the key is left out of the queue name.
get_queue_name_NoKey(queue_key) == "delivery-"

get_queue_name(queue_key) == "delivery-" \o queue_key

\* `not request.json`: a missing body and an empty object are both falsy.
JsonFalsy(json) == ~json.hasBody \/ DOMAIN json.fields = {}

\* Mutant: the request's value is ignored and the default returned.
get_variable_from_request_Default(json, key, default_value) == default_value

get_variable_from_request(json, key, default_value) ==
    IF key \in DOMAIN json.fields THEN json.fields[key] ELSE default_value

\* The result of a helper that may abort(400).
Abort400 == [abort |-> TRUE, value |-> NoneVal]
Ret(v) == [abort |-> FALSE, value |-> v]

\* Mutant: the default exchange is returned without the check for None.
get_default_exchange_name_NoAbort == Ret(config)

get_default_exchange_name ==
    IF config = NoneVal THEN Abort400 ELSE Ret(config)

get_exchange_from_request(json) ==
    LET exchange_name == get_variable_from_request(json, "exchange", NoneVal)
    IN  IF exchange_name = NoneVal THEN get_default_exchange_name
        ELSE Ret(exchange_name)

\* error_handler: logs, abort(400).
error_handler == 400

\* Flask's answer to an exception no handler caught.
InternalServerError == 500

\* jsonify(...) returned.
StatusOK == 200

\* `except pika.exceptions.ChannelClosed` in the two handlers.
HandlerCatches(exc) == exc.type = "ChannelClosed"

\* `except pika.exceptions.ChannelClosed: pass` around the cleanup.
CleanupSwallows(exc) == exc.type = "ChannelClosed"

\* Mutant: the delete is never conditioned on emptiness.
if_empty_of_Never(force_queue_deletion) == FALSE

\* queue_delete(..., if_empty=not force_queue_deletion)
if_empty_of(force_queue_deletion) == ~force_queue_deletion

\* queue_declare(durable=True, ...)
declare_durable == TRUE

\* ------------------------------------------------------------- the broker

NewQueue(durable) == [durable |-> durable, bindings |-> {}, msgs |-> 0]

BrokerDeclare(qs, name, durable) ==
    IF name \in DOMAIN qs THEN qs ELSE qs @@ (name :> NewQueue(durable))

BrokerBindAccepts(qs, name, exchange) ==
    name \in DOMAIN qs /\ exchange \in BrokerExchanges

BrokerBind(qs, name, exchange, routing_key) ==
    [qs EXCEPT ![name].bindings = @ \cup {<<exchange, routing_key>>}]

\* The broker rejects an if_empty delete of a queue with pending messages.
BrokerDeleteAccepts(qs, name, if_empty) ==
    name \in DOMAIN qs => ~(if_empty /\ qs[name].msgs > 0)

BrokerDelete(qs, name) == [n \in DOMAIN qs \ {name} |-> qs[n]]

\* One recorded broker call of a request.
Call(op, conn, queue, exchange, routing_key, flag, ok) ==
    [op |-> op, conn |-> conn, queue |-> queue, exchange |-> exchange,
     routing_key |-> routing_key, flag |-> flag, ok |-> ok]

\* ------------------------------------------------------------------- Init

IdleRequest ==
    [kind |-> "none", json |-> NoBody, pc |-> "idle",
     queue_key |-> "", queue_name |-> "", exchange_name |-> "",
     routing_key |-> "", force |-> FALSE, nested |-> FALSE,
     err |-> NoExc, raised |-> NoExc,
     conn |-> "none", dconn |-> "none",
     status |-> 0, resp_key |-> "", calls |-> << >>]

\* A queue of another application on the same broker; the gateway never
\* names it.
OtherQueue == "other-app"

Init ==
    /\ req = [r \in Reqs |-> IdleRequest]
    /\ queues = (OtherQueue :> NewQueue(TRUE))
    /\ config \in DefaultExchangeValues
    /\ nextKey = 0

\* ------------------------------------------------------ request outcomes

Respond(rq, status, key) ==
    [rq EXCEPT !.pc = "done", !.status = status, !.resp_key = key]

\* An exception leaves add_broker_queue / delete_broker_queue and reaches the
\* handler's try block.
HandlerRaised(rq, exc) ==
    [Respond(rq, IF HandlerCatches(exc) THEN error_handler
                 ELSE InternalServerError, "")
        EXCEPT !.raised = exc]

\* jsonify(key=queue, success=True, ...) of unregister_consumer.
unregister_response_key(rq) == rq.queue_name

\* delete_broker_queue returned normally to its caller.
DeleteReturned(rq) ==
    IF rq.nested THEN HandlerRaised(rq, rq.err)
    ELSE Respond(rq, StatusOK, unregister_response_key(rq))

\* delete_broker_queue raised exc to its caller.
DeleteRaised(rq, exc) ==
    IF rq.nested /\ CleanupSwallows(exc) THEN HandlerRaised(rq, rq.err)
    ELSE HandlerRaised(rq, exc)

\* ---------------------------------------------------------------- actions

\* Requests are numbered in their order of arrival.
Arrives(r) ==
    /\ req[r].pc = "idle"
    /\ \A p \in Reqs : p < r => req[p].pc # "idle"

\* register_consumer, up to the call of add_broker_queue (and, in it, the key
\* and queue name): lines 201-205, 127-128.
ReceiveRegister(r, json) ==
    /\ Arrives(r)
    /\ LET rq == [req[r] EXCEPT !.kind = "register", !.json = json]
           ex == get_exchange_from_request(json)
       IN  IF JsonFalsy(json) \/ ex.abort
           THEN /\ req' = [req EXCEPT ![r] = Respond(rq, 400, "")]
                /\ UNCHANGED nextKey
           ELSE /\ req' = [req EXCEPT ![r] =
                     [rq EXCEPT
                        !.exchange_name = ex.value,
                        !.routing_key =
                            get_variable_from_request(json, "routing-key", "*"),
                        !.queue_key = generate_queue_key(nextKey + 1),
                        !.queue_name =
                            get_queue_name(generate_queue_key(nextKey + 1)),
                        !.pc = "connect"]]
                /\ nextKey' = nextKey + 1
    /\ UNCHANGED <<queues, config>>

\* add_broker_queue: get_broker_connection and connection.channel().
Connect(r, reachable) ==
    /\ req[r].pc = "connect"
    /\ LET c == Call("connect", "primary", "", "", "", FALSE, reachable)
           rq == [req[r] EXCEPT !.calls = Append(@, c)]
       IN  req' = [req EXCEPT ![r] =
              IF reachable
              THEN [rq EXCEPT !.conn = "open", !.pc = "declare"]
              ELSE HandlerRaised(rq, Exc("AMQPConnectionError", "connect"))]
    /\ UNCHANGED <<queues, config, nextKey>>

\* add_broker_queue: channel.queue_declare, outside any try block.
Declare(r, granted) ==
    /\ req[r].pc = "declare"
    /\ LET c == Call("declare", "primary", req[r].queue_name, "", "",
                     declare_durable, granted)
           rq == [req[r] EXCEPT !.calls = Append(@, c)]
       IN  IF granted
           THEN /\ queues' = BrokerDeclare(queues, rq.queue_name, declare_durable)
                /\ req' = [req EXCEPT ![r] = [rq EXCEPT !.pc = "bind"]]
           ELSE /\ UNCHANGED queues
                /\ req' = [req EXCEPT ![r] =
                      HandlerRaised(rq, Exc("ChannelClosed", "declare"))]
    /\ UNCHANGED <<config, nextKey>>

\* Mutant: a failed bind is tried again.
AfterBind_Retry(rq, ok) == IF ok THEN [rq EXCEPT !.pc = "close"] ELSE rq

\* Mutant: a failed bind is reported without the cleanup.
AfterBind_NoCleanup(rq, ok) ==
    IF ok THEN [rq EXCEPT !.pc = "close"]
    ELSE HandlerRaised([rq EXCEPT !.err = Exc("ChannelClosed", "bind")],
                       Exc("ChannelClosed", "bind"))

\* Mutant: a failed bind is ignored and the request carries on.
AfterBind_IgnoresFailure(rq, ok) == [rq EXCEPT !.pc = "close"]

\* What add_broker_queue does once queue_bind has returned or raised.
AfterBind(rq, ok) ==
    IF ok THEN [rq EXCEPT !.pc = "close"]
    ELSE [rq EXCEPT !.err = Exc("ChannelClosed", "bind"),
                    !.nested = TRUE, !.force = TRUE, !.pc = "del_connect"]

\* add_broker_queue: channel.queue_bind; on ChannelClosed, the call of
\* delete_broker_queue(queue_name, True).
Bind(r, granted) ==
    /\ req[r].pc = "bind"
    /\ LET ok == granted /\ BrokerBindAccepts(queues, req[r].queue_name,
                                              req[r].exchange_name)
           c == Call("bind", "primary", req[r].queue_name,
                     req[r].exchange_name, req[r].routing_key, FALSE, ok)
           rq == [req[r] EXCEPT !.calls = Append(@, c)]
       IN  /\ queues' = IF ok THEN BrokerBind(queues, rq.queue_name,
                                              rq.exchange_name, rq.routing_key)
                        ELSE queues
           /\ req' = [req EXCEPT ![r] = AfterBind(rq, ok)]
    /\ UNCHANGED <<config, nextKey>>

\* add_broker_queue: connection.close, return queue_key; register_consumer:
\* jsonify(key=queue_key).
Close(r) ==
    /\ req[r].pc = "close"
    /\ LET c == Call("close", "primary", "", "", "", FALSE, TRUE)
           rq == [req[r] EXCEPT !.calls = Append(@, c), !.conn = "closed"]
       IN  req' = [req EXCEPT ![r] = Respond(rq, StatusOK, rq.queue_key)]
    /\ UNCHANGED <<queues, config, nextKey>>

\* Mutant: the key itself is taken as the queue name.
unregister_queue_Unprefixed(json) == json.fields["key"]

\* queue = get_queue_name(request.json["key"])
unregister_queue(json) == get_queue_name(json.fields["key"])

\* unregister_consumer, up to the call of delete_broker_queue.
ReceiveUnregister(r, json) ==
    /\ Arrives(r)
    /\ LET rq == [req[r] EXCEPT !.kind = "unregister", !.json = json]
       IN  req' = [req EXCEPT ![r] =
              IF JsonFalsy(json) \/ "key" \notin DOMAIN json.fields
              THEN Respond(rq, 400, "")
              ELSE [rq EXCEPT
                      !.queue_name = unregister_queue(json),
                      !.force = get_variable_from_request(json, "force", FALSE),
                      !.pc = "del_connect"]]
    /\ UNCHANGED <<queues, config, nextKey>>

\* delete_broker_queue: get_broker_connection and connection.channel().
DeleteConnect(r, reachable) ==
    /\ req[r].pc = "del_connect"
    /\ LET c == Call("connect", "delete", "", "", "", FALSE, reachable)
           rq == [req[r] EXCEPT !.calls = Append(@, c)]
       IN  req' = [req EXCEPT ![r] =
              IF reachable
              THEN [rq EXCEPT !.dconn = "open", !.pc = "del_delete"]
              ELSE DeleteRaised(rq, Exc("AMQPConnectionError", "connect"))]
    /\ UNCHANGED <<queues, config, nextKey>>

\* delete_broker_queue: channel.queue_delete.
DeleteQueue(r, granted) ==
    /\ req[r].pc = "del_delete"
    /\ LET if_empty == if_empty_of(req[r].force)
           ok == granted /\ BrokerDeleteAccepts(queues, req[r].queue_name,
                                                if_empty)
           c == Call("delete", "delete", req[r].queue_name, "", "",
                     if_empty, ok)
           rq == [req[r] EXCEPT !.calls = Append(@, c)]
       IN  IF ok
           THEN /\ queues' = BrokerDelete(queues, rq.queue_name)
                /\ req' = [req EXCEPT ![r] = [rq EXCEPT !.pc = "del_close"]]
           ELSE /\ UNCHANGED queues
                /\ req' = [req EXCEPT ![r] =
                      DeleteRaised(rq, Exc("ChannelClosed", "delete"))]
    /\ UNCHANGED <<config, nextKey>>

\* delete_broker_queue: connection.close, then back in the caller.
DeleteClose(r) ==
    /\ req[r].pc = "del_close"
    /\ LET c == Call("close", "delete", "", "", "", FALSE, TRUE)
           rq == [req[r] EXCEPT !.calls = Append(@, c), !.dconn = "closed"]
       IN  req' = [req EXCEPT ![r] = DeleteReturned(rq)]
    /\ UNCHANGED <<queues, config, nextKey>>

\* A publisher's message is routed to a bound queue and stays pending.
Publish(q) ==
    /\ q \in DOMAIN queues
    /\ queues[q].bindings # {}
    /\ queues[q].msgs < MaxMsgs
    /\ queues' = [queues EXCEPT ![q].msgs = @ + 1]
    /\ UNCHANGED <<req, config, nextKey>>

\* Keys an unregister request may carry: any key issued so far, or none of them.
CallerKeys == {UnknownKey} \cup {generate_queue_key(n) : n \in 1..nextKey}

Next ==
    \/ \E r \in Reqs, json \in RegisterBodies : ReceiveRegister(r, json)
    \/ \E r \in Reqs, json \in UnregisterBodies(CallerKeys) :
          ReceiveUnregister(r, json)
    \/ \E r \in Reqs, reachable \in BOOLEAN : Connect(r, reachable)
    \/ \E r \in Reqs, granted \in BOOLEAN : Declare(r, granted)
    \/ \E r \in Reqs, granted \in BOOLEAN : Bind(r, granted)
    \/ \E r \in Reqs : Close(r)
    \/ \E r \in Reqs, reachable \in BOOLEAN : DeleteConnect(r, reachable)
    \/ \E r \in Reqs, granted \in BOOLEAN : DeleteQueue(r, granted)
    \/ \E r \in Reqs : DeleteClose(r)
    \/ \E q \in DOMAIN queues : Publish(q)

Spec == Init /\ [][Next]_vars

\* ----------------------------------------------------------------- claims

Done(r) == req[r].pc = "done"
IsRegister(r) == req[r].kind = "register"
IsUnregister(r) == req[r].kind = "unregister"
Fields(r) == req[r].json.fields
Supplies(r, f) == f \in DOMAIN Fields(r)
CallIdx(r) == 1..Len(req[r].calls)
BindFailed(r) ==
    \E i \in CallIdx(r) : req[r].calls[i].op = "bind" /\ ~req[r].calls[i].ok

\* C1: every register request that opened a connection in add_broker_queue
\* has closed it by the time the request finishes, on every exit path.
C1_PrimaryConnectionReleased ==
    \A r \in Reqs : IsRegister(r) /\ Done(r) => req[r].conn # "open"

\* C2: once delete_broker_queue has returned or raised, the connection it
\* opened is not open, for an unregister request and for the nested cleanup.
C2_DeleteConnectionReleased ==
    \A r \in Reqs : Done(r) => req[r].dconn # "open"

\* C3: when the bind of a register request fails, the error that leaves
\* add_broker_queue is the bind error, whatever the outcome of the cleanup.
C3_BindErrorPropagated ==
    \A r \in Reqs :
        IsRegister(r) /\ Done(r) /\ BindFailed(r)
            => req[r].raised = Exc("ChannelClosed", "bind")

\* A forced delete of the request's own queue, on a connection opened after
\* the failed bind.
CleanupDeleteIssued(r) ==
    \E i, j, k \in CallIdx(r) :
        /\ i < j /\ j < k
        /\ req[r].calls[i].op = "bind" /\ ~req[r].calls[i].ok
        /\ req[r].calls[j].op = "connect" /\ req[r].calls[j].conn = "delete"
        /\ req[r].calls[j].ok
        /\ req[r].calls[k].op = "delete" /\ req[r].calls[k].conn = "delete"
        /\ req[r].calls[k].queue = "delivery-" \o req[r].queue_key
        /\ req[r].calls[k].flag = FALSE

\* C4: a register request whose bind fails answers 400 after a forced delete
\* of the queue it declared, issued on a newly opened connection.
C4_BindFailureCleansUpAnd400 ==
    \A r \in Reqs :
        IsRegister(r) /\ Done(r) /\ BindFailed(r)
            => req[r].status = 400 /\ CleanupDeleteIssued(r)

\* A broker call of the request failed (connect, declare, bind or delete).
BrokerFailure(r) == \E i \in CallIdx(r) : ~req[r].calls[i].ok

\* C5: every broker failure during a register or unregister request ends the
\* request with HTTP 400.
C5_BrokerFailureIs400 ==
    \A r \in Reqs : Done(r) /\ BrokerFailure(r) => req[r].status = 400

\* C6: a successful unregister request returns in 'key' the key the caller
\* supplied, not the prefixed queue name.
C6_UnregisterReturnsCallerKey ==
    \A r \in Reqs :
        IsUnregister(r) /\ Done(r) /\ req[r].status = 200
            => req[r].resp_key = Fields(r)["key"]

\* The exchange and routing key a register request resolves to, from its
\* inputs.
ResolvedExchange(r) ==
    IF Supplies(r, "exchange") THEN Fields(r)["exchange"] ELSE config
ResolvedRoutingKey(r) ==
    IF Supplies(r, "routing-key") THEN Fields(r)["routing-key"] ELSE "*"

DeclaredThenBound(r, k) ==
    \E i, j \in CallIdx(r) :
        /\ i < j
        /\ req[r].calls[i].op = "declare" /\ req[r].calls[i].ok
        /\ req[r].calls[i].queue = "delivery-" \o k
        /\ req[r].calls[i].flag = TRUE
        /\ req[r].calls[j].op = "bind" /\ req[r].calls[j].ok
        /\ req[r].calls[j].queue = "delivery-" \o k
        /\ req[r].calls[j].exchange = ResolvedExchange(r)
        /\ req[r].calls[j].routing_key = ResolvedRoutingKey(r)

\* C7: a register request returns 200 with key k only if in that request the
\* queue 'delivery-'+k was declared durable and then bound to the resolved
\* exchange with the resolved routing key, both successfully.
C7_SuccessOnlyIfDeclaredAndBound ==
    \A r \in Reqs :
        IsRegister(r) /\ Done(r) /\ req[r].status = 200
            => DeclaredThenBound(r, req[r].resp_key)

C7_Witness ==
    \E r \in Reqs :
        /\ IsRegister(r) /\ Done(r) /\ req[r].status = 200
        /\ req[r].queue_name \in DOMAIN queues
        /\ queues[req[r].queue_name].bindings # {}

\* The caller asked for no forced deletion: force=false, or force omitted.
NotForced(r) == ~Supplies(r, "force") \/ Fields(r)["force"] = FALSE
Forced(r) == Supplies(r, "force") /\ Fields(r)["force"] = TRUE
AtDelete(r) == IsUnregister(r) /\ req[r].pc = "del_delete"
Pending(q) == q \in DOMAIN queues /\ queues[q].msgs > 0
LastCall(rq) == rq.calls[Len(rq.calls)]

\* The delete step of an unregister request: without force on a queue with
\* pending messages it is issued with if_empty, rejected, answered 400 and
\* leaves the broker as it was; with force it is issued unconditionally and,
\* accepted by the broker, removes the queue.
C8_DeleteStep(r) ==
    AtDelete(r) /\ req'[r] # req[r] =>
        LET q == "delivery-" \o Fields(r)["key"]
            c == LastCall(req'[r])
        IN  /\ c.op = "delete" /\ c.queue = q
            /\ NotForced(r) => c.flag = TRUE
            /\ NotForced(r) /\ Pending(q) =>
                  /\ ~c.ok
                  /\ req'[r].pc = "done" /\ req'[r].status = 400
                  /\ queues' = queues
            /\ Forced(r) => c.flag = FALSE
            /\ Forced(r) /\ c.ok =>
                  /\ q \notin DOMAIN queues'
                  /\ req'[r].pc = "del_close"

\* C8: an unregister request with force false or omitted never removes a queue
\* that holds pending messages (if_empty delete, rejected, 400, queue kept);
\* with force=true the queue is removed and the request returns 200.
C8_NoUnforcedDeleteOfPendingQueue ==
    /\ [][\A r \in Reqs : C8_DeleteStep(r)]_vars
    /\ [](\A r \in Reqs :
            IsUnregister(r) /\ Done(r) /\ Forced(r) /\ req[r].dconn = "closed"
                => req[r].status = 200)

C8_Witness ==
    \E r \in Reqs :
        /\ IsUnregister(r) /\ Done(r) /\ NotForced(r) /\ Supplies(r, "key")
        /\ req[r].status = 400
        /\ LastCall(req[r]).op = "delete" /\ LastCall(req[r]).flag = TRUE
        /\ Pending(req[r].queue_name)

\* The inputs the handlers reject: register with a missing body or with no
\* exchange supplied and none configured; unregister with a missing body or a
\* missing key.
InputError(r) ==
    \/ ~req[r].json.hasBody
    \/ IsRegister(r) /\ ~Supplies(r, "exchange") /\ config = NoneVal
    \/ IsUnregister(r) /\ ~Supplies(r, "key")

\* C9: a request rejected as an input error returns 400 and performs no
\* broker interaction: no connection is opened, no declare, bind or delete.
C9_InputErrorNoBrokerCall ==
    \A r \in Reqs :
        req[r].kind # "none" /\ InputError(r)
            => /\ Done(r) /\ req[r].status = 400
               /\ req[r].calls = << >>
               /\ req[r].conn = "none" /\ req[r].dconn = "none"

C9_Witness ==
    \E r, u \in Reqs :
        /\ IsRegister(r) /\ req[r].json.hasBody /\ InputError(r)
        /\ IsUnregister(u) /\ req[u].json.hasBody /\ InputError(u)
        /\ Done(r) /\ Done(u)

BindsOnlyAgainst(r, e) ==
    \A i \in CallIdx(r) :
        req[r].calls[i].op = "bind" => req[r].calls[i].exchange = e

\* C10: a register request whose body is an object with any subset of
\* {exchange, routing-key} binds against the supplied exchange, or against the
\* configured default when none is supplied; it is rejected as an input error
\* only when no exchange is supplied and none is configured.
C10_ExchangeResolution ==
    \A r \in Reqs :
        IsRegister(r) /\ Done(r) /\ req[r].json.hasBody =>
            /\ BindsOnlyAgainst(r, ResolvedExchange(r))
            /\ req[r].calls = << >>
                  => ~Supplies(r, "exchange") /\ config = NoneVal

\* A register request that has returned 200 with key k.
Registered(g, k) ==
    IsRegister(g) /\ Done(g) /\ req[g].status = 200 /\ req[g].resp_key = k

\* The queues a request declared successfully.
DeclaredQueues(g) ==
    {req[g].calls[i].queue :
        i \in {j \in CallIdx(g) :
                 req[g].calls[j].op = "declare" /\ req[g].calls[j].ok}}

\* Every queue but q is on the broker after the step exactly as before it.
OthersUnchanged(q) ==
    /\ DOMAIN queues' \subseteq DOMAIN queues
    /\ \A n \in DOMAIN queues \ {q} :
          n \in DOMAIN queues' /\ queues'[n] = queues[n]

\* The delete step of a forced unregister that carries the key a register
\* has returned.
C11_DeleteStep(u) ==
    \A g \in Reqs :
        /\ AtDelete(u) /\ req'[u] # req[u] /\ Forced(u)
        /\ Registered(g, Fields(u)["key"])
        => LET c == LastCall(req'[u])
           IN  /\ c.op = "delete" /\ c.flag = FALSE
               /\ DeclaredQueues(g) = {c.queue}
               /\ c.queue = "delivery-" \o req[g].resp_key
               /\ c.ok => /\ c.queue \notin DOMAIN queues'
                          /\ OthersUnchanged(c.queue)
                          /\ req'[u].pc = "del_close"

\* C11: round trip: an unregister with force=true carrying a key a register
\* returned issues its delete for exactly the queue that register declared
\* and returns 200; afterwards that queue does not exist and every other
\* queue on the broker is unchanged.
C11_RoundTrip ==
    /\ [][\A u \in Reqs : C11_DeleteStep(u)]_vars
    /\ [](\A u \in Reqs :
            /\ IsUnregister(u) /\ Done(u) /\ Forced(u)
            /\ \E i \in CallIdx(u) :
                  req[u].calls[i].op = "delete" /\ req[u].calls[i].ok
            => req[u].status = 200)

C11_Witness ==
    \E g, u \in Reqs :
        /\ Registered(g, req[g].queue_key)
        /\ IsUnregister(u) /\ Done(u) /\ Forced(u) /\ req[u].status = 200
        /\ Fields(u)["key"] = req[g].resp_key
        /\ \E i \in CallIdx(u) :
              /\ req[u].calls[i].op = "delete" /\ req[u].calls[i].ok
              /\ DeclaredQueues(g) = {req[u].calls[i].queue}
        /\ DOMAIN queues = {OtherQueue}

\* C12: the bind of a register request uses the caller-supplied routing key
\* when 'routing-key' is present, and '*' when it is omitted.
C12_RoutingKeyResolution ==
    \A r \in Reqs : \A i \in CallIdx(r) :
        req[r].calls[i].op = "bind" =>
            /\ Supplies(r, "routing-key")
                  => req[r].calls[i].routing_key = Fields(r)["routing-key"]
            /\ ~Supplies(r, "routing-key")
                  => req[r].calls[i].routing_key = "*"

Binds(r) == \E i \in CallIdx(r) : req[r].calls[i].op = "bind"

C12_Witness ==
    \E r, o \in Reqs :
        /\ Binds(r) /\ Supplies(r, "routing-key")
        /\ Binds(o) /\ ~Supplies(o, "routing-key")

\* The requests that have derived a queue name from a key, and that key.
HasQueueName(r) == req[r].kind # "none" /\ ~(Done(r) /\ req[r].calls = << >>)
KeyOf(r) == IF IsRegister(r) THEN req[r].queue_key ELSE Fields(r)["key"]

\* C13: get_queue_name is a deterministic, injective function of the key:
\* the same key always yields 'delivery-' followed by the key, and two
\* different keys never yield the same queue name.
C13_QueueNameInjective ==
    \A r, o \in Reqs :
        HasQueueName(r) /\ HasQueueName(o) =>
            /\ req[r].queue_name = "delivery-" \o KeyOf(r)
            /\ KeyOf(r) = KeyOf(o) <=> req[r].queue_name = req[o].queue_name

C13_Witness ==
    \E r, o \in Reqs :
        /\ HasQueueName(r) /\ HasQueueName(o)
        /\ KeyOf(r) # KeyOf(o)
        /\ req[r].queue_name # req[o].queue_name

Count(r, op) ==
    Cardinality({i \in CallIdx(r) : req[r].calls[i].op = op})

\* A step of request r once it has been received: its next broker call.
BrokerStep(r) ==
    \/ \E reachable \in BOOLEAN : Connect(r, reachable)
    \/ \E granted \in BOOLEAN : Declare(r, granted)
    \/ \E granted \in BOOLEAN : Bind(r, granted)
    \/ Close(r)
    \/ \E reachable \in BOOLEAN : DeleteConnect(r, reachable)
    \/ \E granted \in BOOLEAN : DeleteQueue(r, granted)
    \/ DeleteClose(r)

InFlight(r) == req[r].kind # "none" /\ ~Done(r)

C14_Counts ==
    \A r \in Reqs :
        /\ IsRegister(r) =>
              /\ Count(r, "declare") <= 1 /\ Count(r, "bind") <= 1
              /\ Count(r, "delete") <= 1 /\ Count(r, "connect") <= 2
              /\ Len(req[r].calls) <= 6
        /\ IsUnregister(r) =>
              /\ Count(r, "declare") = 0 /\ Count(r, "bind") = 0
              /\ Count(r, "delete") <= 1 /\ Count(r, "connect") <= 1
              /\ Len(req[r].calls) <= 3
        /\ InFlight(r) => ENABLED BrokerStep(r)

\* C14: no operation is retried: a register request makes at most one
\* declare, one bind, one cleanup delete and opens at most two connections;
\* an unregister request opens at most one connection and makes at most one
\* delete; every step of a request in flight is one more broker call, so it
\* reaches its response after a bounded number of them.
C14_NoRetry ==
    /\ []C14_Counts
    /\ [][\A r \in Reqs :
            InFlight(r) /\ req'[r] # req[r]
                => Len(req'[r].calls) = Len(req[r].calls) + 1]_vars

C14_Witness ==
    \E r, u \in Reqs :
        /\ IsRegister(r) /\ Done(r) /\ Len(req[r].calls) = 6
        /\ Count(r, "connect") = 2 /\ Count(r, "delete") = 1
        /\ IsUnregister(u) /\ Done(u) /\ Len(req[u].calls) = 3

\* The cleanup of a register request: what it did on the connection of
\* delete_broker_queue.
CleanupFailed(r) ==
    \E i \in CallIdx(r) :
        req[r].calls[i].conn = "delete" /\ ~req[r].calls[i].ok
CleanupDeleted(r) ==
    \E i \in CallIdx(r) : req[r].calls[i].op = "delete" /\ req[r].calls[i].ok

Rejected(r) == IsRegister(r) /\ Done(r) /\ req[r].status # 200

\* A step of a register request touches no queue but its own.
C15_Frame(r) ==
    IsRegister(r) /\ req'[r] # req[r] =>
        \A n \in (DOMAIN queues \cup DOMAIN queues') \ {req'[r].queue_name} :
            /\ n \in DOMAIN queues /\ n \in DOMAIN queues'
            /\ queues'[n] = queues[n]

\* C15: a register request that ends in rejection leaves behind at most the
\* queue it declared itself: with a failed bind and a successful cleanup
\* delete that queue no longer exists and no other queue was touched; the
\* declared queue survives only when the cleanup attempt itself failed.
C15_RejectedRegisterLeavesNoOrphan ==
    /\ [][\A r \in Reqs : C15_Frame(r)]_vars
    /\ [](\A r \in Reqs :
            Rejected(r) =>
               /\ BindFailed(r) /\ CleanupDeleted(r)
                     => req[r].queue_name \notin DOMAIN queues
               /\ req[r].queue_name \in DOMAIN queues
                     => BindFailed(r) /\ CleanupFailed(r))

C15_Witness ==
    \E r, o \in Reqs :
        /\ Rejected(r) /\ BindFailed(r) /\ CleanupDeleted(r)
        /\ req[r].queue_name \notin DOMAIN queues
        /\ Rejected(o) /\ BindFailed(o) /\ CleanupFailed(o)
        /\ req[o].queue_name \in DOMAIN queues

\* An unregister request carrying key k whose delete the broker accepted.
UnregisteredBy(u, k) ==
    /\ IsUnregister(u) /\ Supplies(u, "key") /\ Fields(u)["key"] = k
    /\ CleanupDeleted(u)

\* A step removes a queue only as the delete of an unregister request that
\* carries the queue's key, or as the cleanup of the register request that
\* declared it and failed to bind it; it removes no binding.
C16_Removal ==
    \A q \in DOMAIN queues :
        /\ q \in DOMAIN queues'
              => queues[q].bindings \subseteq queues'[q].bindings
        /\ q \notin DOMAIN queues' =>
              \E d \in Reqs :
                 /\ req[d].pc = "del_delete" /\ req'[d] # req[d]
                 /\ \/ IsUnregister(d) /\ q = "delivery-" \o Fields(d)["key"]
                    \/ /\ IsRegister(d) /\ BindFailed(d)
                       /\ q = "delivery-" \o req[d].queue_key
                       /\ \A g \in Reqs :
                             g # d => req[g].queue_key # req[d].queue_key

\* C16: under any interleaving of requests, the cleanup of a failed register
\* deletes only the queue that request declared: every queue created by a
\* register that returned success exists and is bound until an unregister
\* carrying its key deletes it.
C16_CleanupIsolated ==
    /\ [][C16_Removal]_vars
    /\ [](\A g \in Reqs :
            Registered(g, req[g].queue_key) =>
               \/ /\ req[g].queue_name \in DOMAIN queues
                  /\ <<ResolvedExchange(g), ResolvedRoutingKey(g)>>
                        \in queues[req[g].queue_name].bindings
               \/ \E u \in Reqs : UnregisteredBy(u, req[g].resp_key))

C16_Witness ==
    \E g, r \in Reqs :
        /\ Registered(g, req[g].queue_key)
        /\ req[g].queue_name \in DOMAIN queues
        /\ queues[req[g].queue_name].bindings # {}
        /\ Rejected(r) /\ BindFailed(r) /\ CleanupDeleted(r)
        /\ req[r].queue_name \notin DOMAIN queues

====
